---- MODULE Spec2Model ----
(***************************************************************************)
(* Model of the Orka packer builder's provisioning workflow:               *)
(* stepOrkaCreate (login, image pre-copy, VM create, VM deploy and its     *)
(* Cleanup) and stepCreateImage (commit / save and its Cleanup), driven by *)
(* a sequential step runner that stops at the first halt and then runs the *)
(* cleanups of the steps that ran, in reverse order.                       *)
(***************************************************************************)
EXTENDS Integers, Sequences, FiniteSets, TLC

(***************************************************************************)
(* Bounds and program constants                                            *)
(***************************************************************************)

\* longest SSH port string a deploy response carries in the model
MaxPortLen == 2

\* http status the copy, deploy, commit, save, delete and purge calls accept
StatusOK == 200

\* http status the VM create call accepts
StatusCreated == 201

Statuses == {StatusOK, StatusCreated, 401, 500}

\* What client.Do hands back: (nil, err), (resp, err) when the redirect policy
\* fails, or (resp, nil) with some status.
HTTPOutcomes ==
    {[err |-> TRUE, resp |-> FALSE, status |-> 0]}
        \cup {[err |-> TRUE, resp |-> TRUE, status |-> 302]}
        \cup {[err |-> FALSE, resp |-> TRUE, status |-> s] : s \in Statuses}

\* token field of the login response body (empty when the body has none)
Tokens == {"", "tok"}

\* vm id and ip fields of the deploy response body
VMIds == {"", "vm-1"}
IPs == {"10.0.0.5"}

\* characters of the ssh port field of the deploy response body
PortChars == {"2", "5", "x", "-"}

PortStrings == UNION {[1..n -> PortChars] : n \in 0..MaxPortLen}

BuilderNames == {"builder-1", "builder-2"}

Configs ==
    [SourceImage : {"source.img"},
     ImageName : {"dest.img"},
     OrkaVMBuilderName : BuilderNames,
     ImagePrecopy : BOOLEAN,
     NoCreateImage : BOOLEAN,
     NoDeleteVM : BOOLEAN]

(***************************************************************************)
(* strconv.Atoi, as far as the port strings of the model exercise it       *)
(***************************************************************************)

IsDigit(c) == c \in {"0", "1", "2", "3", "4", "5", "6", "7", "8", "9"}

DigitVal(c) ==
    CASE c = "0" -> 0 [] c = "1" -> 1 [] c = "2" -> 2 [] c = "3" -> 3
      [] c = "4" -> 4 [] c = "5" -> 5 [] c = "6" -> 6 [] c = "7" -> 7
      [] c = "8" -> 8 [] c = "9" -> 9

\* DigitsVal adding the digits up without the shift by ten
RECURSIVE DigitsVal_NoShift(_)
DigitsVal_NoShift(s) ==
    IF Len(s) = 0 THEN 0
    ELSE DigitsVal_NoShift(SubSeq(s, 1, Len(s) - 1)) + DigitVal(s[Len(s)])

RECURSIVE DigitsVal(_)
DigitsVal(s) ==
    IF Len(s) = 0 THEN 0
    ELSE 10 * DigitsVal(SubSeq(s, 1, Len(s) - 1)) + DigitVal(s[Len(s)])

\* [val, ok]: val is 0 whenever the string is no decimal number
Atoi(s) ==
    LET signed == Len(s) > 0 /\ s[1] \in {"-", "+"}
        digits == IF signed THEN Tail(s) ELSE s
        ok == Len(digits) > 0 /\ \A i \in 1..Len(digits) : IsDigit(digits[i])
    IN  IF ~ok THEN [val |-> 0, ok |-> FALSE]
        ELSE IF signed /\ s[1] = "-"
             THEN [val |-> 0 - DigitsVal(digits), ok |-> TRUE]
             ELSE [val |-> DigitsVal(digits), ok |-> TRUE]

(***************************************************************************)
(* State                                                                   *)
(***************************************************************************)

VARIABLES
    config,         \* *Config of the run (immutable)
    state,          \* multistep.StateBag: function from the keys put so far
    failed,         \* stepOrkaCreate.failed
    precopyFailed,  \* stepOrkaCreate.precopyFailed
    ciFailed,       \* stepCreateImage.failed
    actualImage,    \* local of stepOrkaCreate.Run: image the builder VM boots
    vmDeployResponseData, \* local of stepOrkaCreate.Run: the parsed deploy body
    calls,          \* http exchanges so far, in order
    ui,             \* ui.Error reports so far, in order
    pc,             \* where the runner is
    orkaAction,     \* StepAction returned by stepOrkaCreate.Run
    provAction,     \* StepAction returned by the provisioning steps
    ciAction        \* StepAction returned by stepCreateImage.Run

vars == <<config, state, failed, precopyFailed, ciFailed, actualImage,
          vmDeployResponseData, calls, ui, pc, orkaAction, provAction, ciAction>>

\* state.Put(k, v)
Put(st, k, v) == [x \in DOMAIN st \cup {k} |-> IF x = k THEN v ELSE st[x]]

\* _, ok := state.GetOk(k)
GetOk(st, k) == k \in DOMAIN st

EmptyBag == [x \in {} |-> ""]

\* the runner marks the bag when a step returns ActionHalt
RunnerHalt(st) == Put(st, "halted", TRUE)

\* one http exchange: the request's endpoint, the names it carries, the bearer
\* token of its Authorization header, and what client.Do returned
Call(kind, name, image, auth, out) ==
    [kind |-> kind, name |-> name, image |-> image, auth |-> auth,
     err |-> out.err, resp |-> out.resp, status |-> out.status]

NoAuth == "<no authorization header>"

\* VMDeployResponse{VMId, IP, SSHPort}
VMDeployResponse(vmId, ip, port) == [VMId |-> vmId, IP |-> ip, SSHPort |-> port]

Init ==
    /\ config \in Configs
    /\ state = EmptyBag
    /\ failed = FALSE
    /\ precopyFailed = FALSE
    /\ ciFailed = FALSE
    /\ actualImage = ""
    /\ vmDeployResponseData = VMDeployResponse("", "", <<>>)
    /\ calls = <<>>
    /\ ui = <<>>
    /\ pc = "login"
    /\ orkaAction = "none"
    /\ provAction = "none"
    /\ ciAction = "none"

(***************************************************************************)
(* stepOrkaCreate.Run                                                      *)
(***************************************************************************)

\* createOrkaToken: ("", e) on a client error, else the body's token whatever
\* the status
createOrkaToken(out, tok) ==
    IF out.err THEN [token |-> "", err |-> TRUE]
    ELSE [token |-> tok, err |-> FALSE]

\* what one call of Run leads to: the reports and bag entries it makes, the
\* flags it sets, and whether Run returns ActionHalt or dies of a nil response
Continue ==
    [halt |-> FALSE, panic |-> FALSE, setFailed |-> FALSE,
     setPrecopyFailed |-> FALSE, report |-> <<>>, error |-> <<>>]

Halt(setFailed, setPrecopyFailed, report, error) ==
    [halt |-> TRUE, panic |-> FALSE, setFailed |-> setFailed,
     setPrecopyFailed |-> setPrecopyFailed, report |-> report, error |-> error]

Panic ==
    [halt |-> FALSE, panic |-> TRUE, setFailed |-> FALSE,
     setPrecopyFailed |-> FALSE, report |-> <<>>, error |-> <<>>]

\* state.Put("error", e) for each e of errs, in order
PutErrors(st, errs) ==
    IF Len(errs) = 0 THEN st ELSE Put(st, "error", errs[Len(errs)])

\* the part of a call's result that is the same for every call of Run; next is
\* the place Run goes on from when the call lets it continue
ApplyResult(r, st, next) ==
    /\ ui' = ui \o r.report
    /\ failed' = (failed \/ r.setFailed)
    /\ precopyFailed' = (precopyFailed \/ r.setPrecopyFailed)
    /\ state' = IF r.halt THEN RunnerHalt(PutErrors(st, r.error))
                ELSE PutErrors(st, r.error)
    /\ orkaAction' = IF r.halt THEN "halt"
                     ELSE IF ~r.panic /\ next = "provision" THEN "continue"
                     ELSE orkaAction
    /\ pc' = IF r.panic THEN "panic_in_run"
             ELSE IF r.halt THEN "cleanup_orka" ELSE next

LoginResult(r) ==
    IF r.err THEN Halt(TRUE, FALSE, <<"request">>, <<"request">>)
    ELSE Continue

\* Run, from its start to actualImage := config.SourceImage
Login ==
    /\ pc = "login"
    /\ \E out \in HTTPOutcomes, tok \in Tokens :
         LET r == createOrkaToken(out, tok)
         IN  /\ calls' = Append(calls, Call("login", "", "", NoAuth, out))
             /\ ApplyResult(LoginResult(r),
                            IF r.err THEN state ELSE Put(state, "token", r.token),
                            "precopy")
             /\ actualImage' = IF r.err THEN actualImage ELSE config.SourceImage
    /\ UNCHANGED <<config, ciFailed, vmDeployResponseData, provAction,
                   ciAction>>

\* PrecopyWanted without the no_create_image check
PrecopyWanted_IgnoreNoCreateImage(cfg) == cfg.ImagePrecopy

\* if config.ImagePrecopy { if config.NoCreateImage {skip} else {copy} }
PrecopyWanted(cfg) == cfg.ImagePrecopy /\ ~cfg.NoCreateImage

\* the pre-copy is not configured, or is skipped because of no_create_image
PrecopySkip ==
    /\ pc = "precopy"
    /\ ~PrecopyWanted(config)
    /\ pc' = "vmcreate"
    /\ UNCHANGED <<config, state, failed, precopyFailed, ciFailed,
                   vmDeployResponseData, actualImage, calls, ui, orkaAction,
                   provAction, ciAction>>

\* ImageCopyResult with the return after a non-200 status left out
ImageCopyResult_NoReturn(out) ==
    IF out.err THEN Halt(TRUE, TRUE, <<"request">>, <<"request">>)
    ELSE IF out.status # StatusOK
         THEN [halt |-> FALSE, panic |-> FALSE, setFailed |-> TRUE,
               setPrecopyFailed |-> FALSE, report |-> <<"response">>,
               error |-> <<"response">>]
         ELSE Continue

ImageCopyResult(out) ==
    IF out.err THEN Halt(TRUE, TRUE, <<"request">>, <<"request">>)
    ELSE IF out.status # StatusOK
         THEN Halt(TRUE, FALSE, <<"response">>, <<"response">>)
         ELSE Continue

\* the image copy call and what follows it up to the VM create request
ImageCopy ==
    /\ pc = "precopy"
    /\ PrecopyWanted(config)
    /\ \E out \in HTTPOutcomes :
         LET r == ImageCopyResult(out)
         IN  /\ calls' = Append(calls, Call("copy", config.ImageName,
                                            config.SourceImage, state["token"], out))
             /\ ApplyResult(r, state, "vmcreate")
             /\ actualImage' = IF r.halt \/ r.panic THEN actualImage
                               ELSE config.ImageName
    /\ UNCHANGED <<config, ciFailed, vmDeployResponseData, provAction,
                   ciAction>>

VMCreateResult(out) ==
    IF out.err THEN Halt(FALSE, FALSE, <<"request">>, <<>>)
    ELSE IF out.status # StatusCreated
         THEN Halt(TRUE, FALSE, <<"response">>, <<"response">>)
         ELSE Continue

\* the VM create call
VMCreate ==
    /\ pc = "vmcreate"
    /\ \E out \in HTTPOutcomes :
         /\ calls' = Append(calls, Call("vmcreate", config.OrkaVMBuilderName,
                                        actualImage, state["token"], out))
         /\ ApplyResult(VMCreateResult(out), state, "vmdeploy")
    /\ UNCHANGED <<config, ciFailed, vmDeployResponseData, actualImage,
                   provAction, ciAction>>

\* the deploy call's error is not looked at: a nil response is dereferenced
VMDeployResult(out) ==
    IF ~out.resp THEN Panic
    ELSE IF out.status # StatusOK
         THEN Halt(TRUE, FALSE, <<>>, <<"response">>)
         ELSE Continue

\* what Run stores of a deploy response it accepts
StoreDeploy(st, vmId, ip, port) ==
    Put(Put(Put(st, "vmid", vmId), "ssh_port", Atoi(port).val), "ssh_host", ip)

\* the VM deploy call and the rest of Run
VMDeploy ==
    /\ pc = "vmdeploy"
    /\ \E out \in HTTPOutcomes, vmId \in VMIds, ip \in IPs, port \in PortStrings :
         LET r == VMDeployResult(out)
         IN  /\ calls' = Append(calls, Call("deploy", config.OrkaVMBuilderName,
                                            "", state["token"], out))
             /\ vmDeployResponseData' =
                    IF ~out.resp THEN vmDeployResponseData
                    ELSE IF out.err THEN VMDeployResponse("", "", <<>>)
                    ELSE VMDeployResponse(vmId, ip, port)
             /\ ApplyResult(r,
                            IF r.halt \/ r.panic THEN state
                            ELSE StoreDeploy(state, vmId, ip, port),
                            "provision")
    /\ UNCHANGED <<config, ciFailed, actualImage, provAction, ciAction>>

(***************************************************************************)
(* The provisioning steps between the two steps of this builder            *)
(***************************************************************************)

\* connecting to the published ssh endpoint and provisioning: continue or halt
Provision ==
    /\ pc = "provision"
    /\ \E a \in {"continue", "halt"} :
         /\ provAction' = a
         /\ state' = IF a = "halt" THEN RunnerHalt(state) ELSE state
         /\ pc' = IF a = "halt" THEN "cleanup_orka" ELSE "createimage"
    /\ UNCHANGED <<config, failed, precopyFailed, ciFailed,
                   vmDeployResponseData, actualImage, calls, ui, orkaAction,
                   ciAction>>

(***************************************************************************)
(* stepCreateImage                                                         *)
(***************************************************************************)

\* CreateImageBranch without the no_create_image return
CreateImageBranch_NoSkip(cfg) == IF cfg.ImagePrecopy THEN "commit" ELSE "save"

\* which of its three ways stepCreateImage.Run takes
CreateImageBranch(cfg) ==
    IF cfg.NoCreateImage THEN "skip"
    ELSE IF cfg.ImagePrecopy THEN "commit" ELSE "save"

\* ImageCommitResult halting on a non-200 status, as the save branch does
ImageCommitResult_HaltOnStatus(out) ==
    IF out.err THEN [halt |-> TRUE, report |-> <<"request">>]
    ELSE IF out.status # StatusOK
         THEN [halt |-> TRUE, report |-> <<"commit">>]
         ELSE [halt |-> FALSE, report |-> <<>>]

\* [halt, report] of the commit call
ImageCommitResult(out) ==
    IF out.err THEN [halt |-> TRUE, report |-> <<"request">>]
    ELSE IF out.status # StatusOK
         THEN [halt |-> FALSE, report |-> <<"commit">>]
         ELSE [halt |-> FALSE, report |-> <<>>]

\* [halt, report] of the save call
ImageSaveResult(out) ==
    IF out.err THEN [halt |-> TRUE, report |-> <<"request">>]
    ELSE IF out.status # StatusOK
         THEN [halt |-> TRUE, report |-> <<"response">>]
         ELSE [halt |-> FALSE, report |-> <<>>]

\* Run returns; the runner goes on to the cleanups, this step's first
CreateImageReturn(r) ==
    /\ ui' = ui \o r.report
    /\ ciAction' = IF r.halt THEN "halt" ELSE "continue"
    /\ state' = IF r.halt THEN RunnerHalt(state) ELSE state
    /\ pc' = "cleanup_ci"

\* Run reads vmid and token from the bag before anything else
CreateImageReady == pc = "createimage" /\ GetOk(state, "vmid") /\ GetOk(state, "token")

CreateImageSkip ==
    /\ CreateImageReady
    /\ CreateImageBranch(config) = "skip"
    /\ CreateImageReturn([halt |-> FALSE, report |-> <<>>])
    /\ UNCHANGED <<config, failed, precopyFailed, ciFailed,
                   vmDeployResponseData, actualImage, calls, orkaAction,
                   provAction>>

ImageCommit ==
    /\ CreateImageReady
    /\ CreateImageBranch(config) = "commit"
    /\ \E out \in HTTPOutcomes :
         /\ calls' = Append(calls, Call("commit", state["vmid"], "",
                                        state["token"], out))
         /\ CreateImageReturn(ImageCommitResult(out))
    /\ UNCHANGED <<config, failed, precopyFailed, ciFailed,
                   vmDeployResponseData, actualImage, orkaAction, provAction>>

ImageSave ==
    /\ CreateImageReady
    /\ CreateImageBranch(config) = "save"
    /\ \E out \in HTTPOutcomes :
         /\ calls' = Append(calls, Call("save", state["vmid"], config.ImageName,
                                        state["token"], out))
         /\ CreateImageReturn(ImageSaveResult(out))
    /\ UNCHANGED <<config, failed, precopyFailed, ciFailed,
                   vmDeployResponseData, actualImage, orkaAction, provAction>>

\* stepCreateImage.Cleanup: reads vmid, reports at most
CreateImageCleanup ==
    /\ pc = "cleanup_ci"
    /\ pc' = IF GetOk(state, "vmid") THEN "cleanup_orka" ELSE "panic_in_cleanup"
    /\ UNCHANGED <<config, state, failed, precopyFailed, ciFailed,
                   vmDeployResponseData, actualImage, calls, ui, orkaAction,
                   provAction, ciAction>>

(***************************************************************************)
(* stepOrkaCreate.Cleanup                                                  *)
(***************************************************************************)

\* CleanupPath without the do_not_delete check
CleanupPath_IgnoreNoDelete(cfg, f) ==
    IF f THEN (IF cfg.ImagePrecopy THEN "delete" ELSE "nothing")
    ELSE "purge"

\* which way Cleanup takes once it has read the token
CleanupPath(cfg, f) ==
    IF cfg.NoDeleteVM THEN "skip"
    ELSE IF f THEN (IF cfg.ImagePrecopy THEN "delete" ELSE "nothing")
    ELSE "purge"

\* the name the image delete request carries
ImageDeleteName(cfg) == cfg.OrkaVMBuilderName

\* VMPurgeName taking the image's name for the VM's
VMPurgeName_ImageName(cfg) == cfg.ImageName

\* the name the purge request carries
VMPurgeName(cfg) == cfg.OrkaVMBuilderName

\* token := state.Get("token").(string) on a bag without a token
CleanupNoToken ==
    /\ pc = "cleanup_orka"
    /\ ~GetOk(state, "token")
    /\ pc' = "panic_in_cleanup"
    /\ UNCHANGED <<config, state, failed, precopyFailed, ciFailed,
                   vmDeployResponseData, actualImage, calls, ui, orkaAction,
                   provAction, ciAction>>

\* do_not_delete is set, or the run failed without a pre-copy configured
CleanupNothing ==
    /\ pc = "cleanup_orka"
    /\ GetOk(state, "token")
    /\ CleanupPath(config, failed) \in {"skip", "nothing"}
    /\ pc' = "done"
    /\ UNCHANGED <<config, state, failed, precopyFailed, ciFailed,
                   vmDeployResponseData, actualImage, calls, ui, orkaAction,
                   provAction, ciAction>>

\* [report, error] of precopyImageDelete
ImageDeleteResult(out) ==
    IF out.err THEN [report |-> <<"request">>, error |-> <<"request">>]
    ELSE IF out.status # StatusOK
         THEN [report |-> <<"delete">>, error |-> <<>>]
         ELSE [report |-> <<>>, error |-> <<>>]

\* the run failed and a pre-copy is configured: precopyImageDelete
CleanupImageDelete ==
    /\ pc = "cleanup_orka"
    /\ GetOk(state, "token")
    /\ CleanupPath(config, failed) = "delete"
    /\ \E out \in HTTPOutcomes :
         LET r == ImageDeleteResult(out)
         IN  /\ calls' = Append(calls, Call("delete", ImageDeleteName(config), "",
                                            state["token"], out))
             /\ ui' = ui \o r.report
             /\ state' = PutErrors(state, r.error)
    /\ pc' = "done"
    /\ UNCHANGED <<config, failed, precopyFailed, ciFailed,
                   vmDeployResponseData, actualImage, orkaAction, provAction,
                   ciAction>>

\* [report, error, panic] of the purge call: the error is reported and Cleanup
\* goes on to read the status of the response, nil or not
VMPurgeResult(out) ==
    [report |-> (IF out.err THEN <<"request">> ELSE <<>>)
                  \o (IF out.resp /\ out.status # StatusOK
                      THEN <<"response">> ELSE <<>>),
     error |-> IF out.err THEN <<"request">> ELSE <<>>,
     panic |-> ~out.resp]

\* the run did not fail: purge the builder VM and its configuration
CleanupPurge ==
    /\ pc = "cleanup_orka"
    /\ GetOk(state, "token")
    /\ CleanupPath(config, failed) = "purge"
    /\ \E out \in HTTPOutcomes :
         LET r == VMPurgeResult(out)
         IN  /\ calls' = Append(calls, Call("purge", VMPurgeName(config), "",
                                            state["token"], out))
             /\ ui' = ui \o r.report
             /\ state' = PutErrors(state, r.error)
             /\ pc' = IF r.panic THEN "panic_in_cleanup" ELSE "done"
    /\ UNCHANGED <<config, failed, precopyFailed, ciFailed,
                   vmDeployResponseData, actualImage, orkaAction, provAction,
                   ciAction>>

(***************************************************************************)
(* The run                                                                 *)
(***************************************************************************)

Next ==
    \/ Login
    \/ PrecopySkip
    \/ ImageCopy
    \/ VMCreate
    \/ VMDeploy
    \/ Provision
    \/ CreateImageSkip
    \/ ImageCommit
    \/ ImageSave
    \/ CreateImageCleanup
    \/ CleanupNoToken
    \/ CleanupNothing
    \/ CleanupImageDelete
    \/ CleanupPurge

Spec == Init /\ [][Next]_vars

TypeOK ==
    /\ config \in Configs
    /\ DOMAIN state \subseteq {"token", "vmid", "ssh_port", "ssh_host", "error", "halted"}
    /\ failed \in BOOLEAN /\ precopyFailed \in BOOLEAN /\ ciFailed \in BOOLEAN
    /\ pc \in {"login", "precopy", "vmcreate", "vmdeploy", "provision",
               "createimage", "cleanup_ci", "cleanup_orka", "done",
               "panic_in_run", "panic_in_cleanup"}
    /\ orkaAction \in {"none", "continue", "halt"}
    /\ provAction \in {"none", "continue", "halt"}
    /\ ciAction \in {"none", "continue", "halt"}

(***************************************************************************)
(* Properties                                                              *)
(***************************************************************************)

\* positions of the calls of one kind in the run's call sequence
CallsOf(kind) == {i \in 1..Len(calls) : calls[i].kind = kind}

\* the call ended in a client error or in a status other than ok
CallFailed(c, ok) == c.err \/ c.status # ok

ForwardKinds == {"copy", "vmcreate", "deploy", "commit", "save"}

\* the runner has left the Run methods and is in, or past, the cleanups
InCleanup == pc \in {"cleanup_ci", "cleanup_orka", "done", "panic_in_cleanup"}

\* stepOrkaCreate.Cleanup has run, to its end or to a panic
CleanupOver == pc \in {"done", "panic_in_cleanup"}

HasVmId == GetOk(state, "vmid") /\ state["vmid"] # ""

\* C1: a failed image copy (client error or non-200 status) halts Create &
\* Deploy with failed and precopyFailed both set, and the cleanup that follows
\* (do_not_delete unset) issues image-delete exactly once and never VM purge.
C1_CopyFailureSetsBothFlags ==
    \A i \in CallsOf("copy") :
        CallFailed(calls[i], StatusOK) =>
            /\ orkaAction = "halt"
            /\ failed
            /\ precopyFailed
            /\ CallsOf("purge") = {}
            /\ (pc = "done" /\ ~config.NoDeleteVM) =>
                   Cardinality(CallsOf("delete")) = 1

\* C2: with do_not_delete set, no image-delete call and no VM purge call is
\* ever issued, whatever failed and image_precopy are and wherever Run stopped.
C2_NoDeleteVMIssuesNoCleanupCall ==
    config.NoDeleteVM => CallsOf("delete") = {} /\ CallsOf("purge") = {}

\* Cleanup has returned with do_not_delete set after a run that copied the
\* image and then failed: the case with something to delete.
C2_Witness ==
    /\ pc = "done"
    /\ config.NoDeleteVM
    /\ config.ImagePrecopy
    /\ failed
    /\ \E i \in CallsOf("copy") : ~CallFailed(calls[i], StatusOK)

\* C3: the VM purge call is never issued in a run whose vmid is empty or unset.
C3_PurgeOnlyWithVmId ==
    CallsOf("purge") # {} => HasVmId

\* C4: the stored vmid is non-empty exactly when the deploy call has returned
\* success, and it is non-empty whenever Create Image starts.
C4_VmIdIffDeploySucceeded ==
    /\ HasVmId <=> \E i \in CallsOf("deploy") : ~CallFailed(calls[i], StatusOK)
    /\ pc = "createimage" => HasVmId

\* C5: whenever the Run of Create & Deploy or of Create Image has returned
\* halt, failed is true by the time the cleanups execute.
C5_HaltSetsFailed ==
    (InCleanup /\ (orkaAction = "halt" \/ ciAction = "halt")) => failed

\* C6: once failed is true, every call issued afterwards is an image-delete
\* call of the cleanup: no copy, VM create, deploy, commit or save (and no
\* other call) follows.
C6_NoForwardCallAfterFailed ==
    [][failed =>
          \A i \in (Len(calls) + 1)..Len(calls') : calls'[i].kind = "delete"]_vars

\* failed was set, and the cleanup's image-delete call followed it.
C6_Witness ==
    /\ failed
    /\ pc = "done"
    /\ CallsOf("delete") # {}
    /\ \E i \in CallsOf("vmcreate") : CallFailed(calls[i], StatusCreated)

\* C7: a login that ends in a client error or a non-2xx status records an
\* error, sets failed and halts, with no copy, create or deploy call after it;
\* a token is stored only after a successful login.
C7_LoginFailureHalts ==
    \A i \in CallsOf("login") :
        LET ok == ~calls[i].err /\ calls[i].status \in 200..299
        IN  /\ ~ok =>
                  /\ orkaAction = "halt"
                  /\ failed
                  /\ GetOk(state, "error")
                  /\ CallsOf("copy") \cup CallsOf("vmcreate") \cup CallsOf("deploy") = {}
            /\ GetOk(state, "token") => ok

\* C8: a VM create or VM deploy call that ends in a client error or in a
\* non-success status makes Run return halt: no forward call follows it, no
\* vmid, ssh_host or ssh_port is published, and the runner gets to the cleanups.
C8_CreateDeployFailureHalts ==
    \A i \in CallsOf("vmcreate") \cup CallsOf("deploy") :
        CallFailed(calls[i],
                   IF calls[i].kind = "vmcreate" THEN StatusCreated ELSE StatusOK) =>
            /\ orkaAction = "halt"
            /\ InCleanup
            /\ \A j \in (i + 1)..Len(calls) : calls[j].kind \notin ForwardKinds
            /\ DOMAIN state \cap {"vmid", "ssh_host", "ssh_port"} = {}

\* C9: after a run in which every step continued, with do_not_delete unset,
\* the cleanup issues exactly one VM purge call, naming the run's builder VM,
\* and no image-delete call; before the cleanup no purge call has been issued.
FullSuccess ==
    /\ orkaAction = "continue"
    /\ provAction = "continue"
    /\ ciAction = "continue"
    /\ ~config.NoDeleteVM

C9_SuccessPurgesOnce ==
    FullSuccess =>
        /\ CallsOf("delete") = {}
        /\ \A i \in CallsOf("purge") : calls[i].name = config.OrkaVMBuilderName
        /\ Cardinality(CallsOf("purge")) = IF CleanupOver THEN 1 ELSE 0

\* the cleanup of a fully successful run has returned after a purge answered 200
C9_Witness ==
    /\ FullSuccess
    /\ pc = "done"
    /\ \E i \in CallsOf("purge") : ~CallFailed(calls[i], StatusOK)
    /\ \E i \in CallsOf("save") : ~CallFailed(calls[i], StatusOK)

\* C10: a purge that fails (client error or non-200 status) is reported and
\* Cleanup then returns normally, having issued no further call.
C10_PurgeFailureReturns ==
    \A i \in CallsOf("purge") :
        CallFailed(calls[i], StatusOK) =>
            /\ pc = "done"
            /\ i = Len(calls)
            /\ Len(ui) > 0 /\ ui[Len(ui)] \in {"request", "response"}

\* C11: the image-delete call of the cleanup names the pre-copied destination
\* image, config.ImageName, the name the copy call wrote to.
C11_DeleteNamesDestinationImage ==
    \A i \in CallsOf("delete") : calls[i].name = config.ImageName

\* C12, as a whole: an image-delete call is issued only in a run whose image
\* copy call was issued and succeeded, followed by a failure of a later step.
C12_DeleteOnlyAfterSuccessfulCopy ==
    CallsOf("delete") # {} =>
        /\ \E i \in CallsOf("copy") : ~CallFailed(calls[i], StatusOK)
        /\ orkaAction = "halt" \/ provAction = "halt" \/ ciAction = "halt"

\* Run has got past its choice of the image to boot from
PastImageSelection == GetOk(state, "token") /\ pc \notin {"login", "precopy"}

\* C13: the image copy call is issued (once) exactly when image_precopy is set
\* and no_create_image is not; the VM create request names the destination
\* image when the copy was issued and succeeded, else the source image.
C13_CopyIffPrecopyAndImageChosen ==
    /\ Cardinality(CallsOf("copy")) <= 1
    /\ CallsOf("copy") # {} => config.ImagePrecopy /\ ~config.NoCreateImage
    /\ PastImageSelection =>
           (CallsOf("copy") # {} <=> config.ImagePrecopy /\ ~config.NoCreateImage)
    /\ \A j \in CallsOf("vmcreate") :
           calls[j].image =
               IF \E i \in CallsOf("copy") : ~CallFailed(calls[i], StatusOK)
               THEN config.ImageName ELSE config.SourceImage

\* a VM create request was sent that names the pre-copied destination image
C13_Witness ==
    /\ \E i \in CallsOf("copy") : ~CallFailed(calls[i], StatusOK)
    /\ \E j \in CallsOf("vmcreate") :
           calls[j].image = config.ImageName /\ calls[j].image # config.SourceImage

\* C12, its second half: in a run where the copy was skipped or never reached
\* (no copy call in the run), the cleanup issues no image-delete call.
C12_NoCopyNoDelete == CallsOf("copy") = {} => CallsOf("delete") = {}

\* C14: with no_create_image set, Create Image issues neither commit nor save,
\* returns continue and leaves the run state as it found it.
C14_NoCreateImageIsNoOp ==
    /\ [](config.NoCreateImage => CallsOf("commit") \cup CallsOf("save") = {})
    /\ [][(pc = "createimage" /\ config.NoCreateImage) =>
              /\ ciAction' = "continue"
              /\ calls' = calls
              /\ state' = state
              /\ ui' = ui
              /\ <<failed, precopyFailed, ciFailed>>' = <<failed, precopyFailed, ciFailed>>]_vars

\* Create Image has returned in a run with no_create_image set
C14_Witness ==
    /\ config.NoCreateImage
    /\ pc = "cleanup_ci"
    /\ ciAction = "continue"

\* the first ui.Error of a run that got as far as Create Image is that step's
FirstReport(tags) == Len(ui) > 0 /\ ui[1] \in tags

\* C15: only the save branch halts on failure: a failed commit call (client
\* error or non-200 status) is reported and the step returns continue; a failed
\* save call makes the step return halt.
C15_OnlySaveHalts ==
    /\ \A i \in CallsOf("commit") :
           CallFailed(calls[i], StatusOK) =>
               ciAction = "continue" /\ FirstReport({"request", "commit"})
    /\ \A i \in CallsOf("save") :
           CallFailed(calls[i], StatusOK) => ciAction = "halt"

\* C15, amended: a commit call answered with a non-200 status is reported and
\* the step returns continue; a commit call that ends in a client error is
\* reported and the step returns halt; a failed save call (client error or
\* non-200 status) is reported and the step returns halt; a call answered 200
\* lets the step return continue.
C15_OnlySaveHaltsOnStatus ==
    /\ \A i \in CallsOf("commit") :
           IF calls[i].err
           THEN ciAction = "halt" /\ FirstReport({"request"})
           ELSE ciAction = "continue"
                    /\ (calls[i].status # StatusOK => FirstReport({"commit"}))
    /\ \A i \in CallsOf("save") :
           IF CallFailed(calls[i], StatusOK)
           THEN ciAction = "halt" /\ FirstReport({"request", "response"})
           ELSE ciAction = "continue"

\* a commit call was answered with a non-200 status and the step continued
C15_Witness ==
    /\ ciAction = "continue"
    /\ \E i \in CallsOf("commit") : ~calls[i].err /\ calls[i].status # StatusOK

\* the number a decimal numeral (digits, after an optional minus sign) denotes:
\* each digit times the power of ten of its place
IsNumeral(s) ==
    LET digits == IF Len(s) > 0 /\ s[1] = "-" THEN Tail(s) ELSE s
    IN  Len(digits) > 0 /\ \A i \in 1..Len(digits) : IsDigit(digits[i])

RECURSIVE Pow10(_)
Pow10(n) == IF n = 0 THEN 1 ELSE 10 * Pow10(n - 1)

RECURSIVE PlaceValue(_)
PlaceValue(digits) ==
    IF Len(digits) = 0 THEN 0
    ELSE DigitVal(Head(digits)) * Pow10(Len(digits) - 1) + PlaceValue(Tail(digits))

NumeralValue(s) ==
    IF s[1] = "-" THEN 0 - PlaceValue(Tail(s)) ELSE PlaceValue(s)

PublishedKeys == {"vmid", "ssh_host", "ssh_port"}

\* C16: after Create & Deploy accepted a deploy response {vmId, ip, sshPort},
\* the run state holds vmid = vmId, ssh_host = ip and ssh_port = the number the
\* sshPort string denotes; on a path where Run did not continue none of the
\* three is written.
C16_DeployResponseRoundTrip ==
    IF orkaAction = "continue"
    THEN /\ PublishedKeys \subseteq DOMAIN state
         /\ state["vmid"] = vmDeployResponseData.VMId
         /\ state["ssh_host"] = vmDeployResponseData.IP
         /\ IsNumeral(vmDeployResponseData.SSHPort) =>
                state["ssh_port"] = NumeralValue(vmDeployResponseData.SSHPort)
    ELSE DOMAIN state \cap PublishedKeys = {}

\* Run continued after a deploy response {"vm-1", "10.0.0.5", "25"}
C16_Witness ==
    /\ orkaAction = "continue"
    /\ vmDeployResponseData = VMDeployResponse("vm-1", "10.0.0.5", <<"2", "5">>)
    /\ state["ssh_port"] = 25

\* C17: when the deploy call succeeds but its ssh port string is no number,
\* Create & Deploy halts and publishes no ssh_port.
C17_UnparsablePortHalts ==
    (/\ \E i \in CallsOf("deploy") : ~CallFailed(calls[i], StatusOK)
     /\ ~Atoi(vmDeployResponseData.SSHPort).ok) =>
        /\ orkaAction = "halt"
        /\ ~GetOk(state, "ssh_port")

\* place of a call kind in: login, copy, VM create, deploy, (commit or save),
\* (delete or purge)
CallRank(kind) ==
    CASE kind = "login" -> 1
      [] kind = "copy" -> 2
      [] kind = "vmcreate" -> 3
      [] kind = "deploy" -> 4
      [] kind \in {"commit", "save"} -> 5
      [] kind \in {"delete", "purge"} -> 6

\* the calls of the run come in that order, each place taken at most once
CallsInOrder ==
    \A i, j \in 1..Len(calls) :
        i < j => CallRank(calls[i].kind) < CallRank(calls[j].kind)

\* C18, its first two parts: the calls of a run are a subsequence of login,
\* copy, VM create, deploy, (commit or save), (delete or purge), and no kind of
\* call is issued twice.
C18_CallsInOrderAtMostOnce == CallsInOrder

\* C18: the calls of a run are a subsequence of login, copy, VM create, deploy,
\* (commit or save), (delete or purge), each issued at most once, and every
\* call other than login is issued after login has returned a token, which it
\* carries as its bearer token.
C18_CallSequence ==
    /\ CallsInOrder
    /\ \A i \in 1..Len(calls) :
           calls[i].kind # "login" =>
               /\ \E j \in 1..(i - 1) : calls[j].kind = "login" /\ ~calls[j].err
               /\ calls[i].auth # NoAuth
               /\ calls[i].auth # ""

\* C19: the cleanup of Create & Deploy completes normally wherever Run stopped,
\* also after a login failure that stored no token: it does not depend on a
\* bag entry that Run did not write.
C19_CleanupNeedsNoToken ==
    (CleanupOver /\ ~GetOk(state, "token")) => pc = "done"

\* C20: whenever the Run of Create & Deploy or of Create Image has returned
\* halt, an error is recorded in the bag under "error".
C20_HaltRecordsError ==
    (orkaAction = "halt" \/ ciAction = "halt") => GetOk(state, "error")

\* C20, for Create Image alone: its halts record an error as well.
C20_CreateImageHaltRecordsError ==
    ciAction = "halt" => GetOk(state, "error")
====
